---- MODULE Spec2Model ----
(***************************************************************************)
(* The dynamic spreadsheet editor (EditableSpreadsheet), the dashboard     *)
(* page that hosts it (DashboardPage) and the Excel import                 *)
(* (parseExcelFile), as a state machine.                                   *)
(*                                                                         *)
(* JavaScript values are records of one shape, [t, n, s]: t is the type    *)
(* tag, n the numeric value, s the string as a sequence of one-character   *)
(* strings, so that Number(string) is computed by reading the characters.  *)
(***************************************************************************)
EXTENDS Integers, Sequences, FiniteSets, TLC

VARIABLES
    sheets,           \* EditableSpreadsheet: useState sheets
    activeSheetId,    \* EditableSpreadsheet: useState activeSheetId
    mounted,          \* TRUE while the editor renders; FALSE once a render threw
    spreadsheetData,  \* DashboardPage: useState spreadsheetData (the host's snapshot)
    error,            \* DashboardPage: useState error
    now,              \* the last value Date.now() returned (milliseconds)
    budget,           \* handler invocations left in this behaviour
    lastOp,           \* the handler that ran last, with its arguments
    stockMinimo,      \* DashboardPage: useState stockMinimo
    stockMaximo,      \* DashboardPage: useState stockMaximo
    calculation,      \* DashboardPage: useState calculation
    stockStatus,      \* the last call of getStockStatus: arguments and result
    job,              \* the row of the jobs table
    creation,         \* POST /api/jobs: where the request is
    callbacks         \* POST /api/webhooks/n8n: where each request is, and its payload

\* the jobs table and the requests of the two routes
server == <<job, creation, callbacks>>

\* the state the spreadsheet handlers leave alone
dashboard == <<stockMinimo, stockMaximo, calculation, stockStatus, server>>

\* the state of the page
page == <<sheets, activeSheetId, mounted, spreadsheetData, error, now, budget, lastOp,
          stockMinimo, stockMaximo, calculation, stockStatus>>

vars == <<page, server>>

----------------------------------------------------------------------------
(* Bounds of the exploration *)

\* handler invocations in one behaviour
MaxSteps == 3
\* handler invocations in one behaviour of the specifications that run only
\* the sheet handlers or only the column handlers
MaxDeepSteps == 5
\* values Date.now() takes: 1..MaxClock
MaxClock == 2
\* the user acts on the first MaxArgPos sheets / columns / rows, or on the last one
MaxArgPos == 1
\* getStockStatus is called with a stock of 0..MaxStockValue
MaxStockValue == 101
\* requests n8n sends to the callback route
MaxCallbacks == 2

----------------------------------------------------------------------------
(* JavaScript values *)

Null == [t |-> "null", n |-> 0, s |-> <<>>]

Undefined == [t |-> "undefined", n |-> 0, s |-> <<>>]

NaN == [t |-> "NaN", n |-> 0, s |-> <<>>]

Num(k) == [t |-> "number", n |-> k, s |-> <<>>]

Str(cs) == [t |-> "string", n |-> 0, s |-> cs]

Digits == {"0", "1", "2", "3", "4", "5", "6", "7", "8", "9"}

DigitValue(c) ==
    CASE c = "0" -> 0 [] c = "1" -> 1 [] c = "2" -> 2 [] c = "3" -> 3
      [] c = "4" -> 4 [] c = "5" -> 5 [] c = "6" -> 6 [] c = "7" -> 7
      [] c = "8" -> 8 [] c = "9" -> 9

RECURSIVE TrimLeft(_)
TrimLeft(cs) ==
    IF cs # <<>> /\ Head(cs) = " " THEN TrimLeft(Tail(cs)) ELSE cs

RECURSIVE TrimRight(_)
TrimRight(cs) ==
    IF cs # <<>> /\ cs[Len(cs)] = " "
    THEN TrimRight(SubSeq(cs, 1, Len(cs) - 1))
    ELSE cs

RECURSIVE DecimalValue(_, _)
DecimalValue(cs, acc) ==
    IF cs = <<>> THEN acc
    ELSE DecimalValue(Tail(cs), acc * 10 + DigitValue(Head(cs)))

\* Number(string): StringToNumber on the trimmed text; the empty text is 0,
\* an optionally signed run of decimal digits is its value, anything else NaN.
StringToNumber(cs) ==
    LET body == TrimRight(TrimLeft(cs))
        signed == body # <<>> /\ Head(body) \in {"-", "+"}
        digits == IF signed THEN Tail(body) ELSE body
    IN  IF body = <<>> THEN Num(0)
        ELSE IF digits # <<>> /\ \A i \in 1..Len(digits) : digits[i] \in Digits
        THEN Num(IF signed /\ Head(body) = "-"
                 THEN 0 - DecimalValue(digits, 0)
                 ELSE DecimalValue(digits, 0))
        ELSE NaN

\* Number(v)
ToNumber(v) ==
    CASE v.t = "number" -> v
      [] v.t = "NaN" -> NaN
      [] v.t = "null" -> Num(0)
      [] v.t = "undefined" -> NaN
      [] v.t = "boolean" -> Num(v.n)
      [] v.t = "string" -> StringToNumber(v.s)

\* ToBoolean(v)
Truthy(v) ==
    CASE v.t = "number" -> v.n # 0
      [] v.t = "string" -> v.s # <<>>
      [] v.t = "boolean" -> v.n = 1
      [] OTHER -> FALSE

\* a || b
Or(a, b) == IF Truthy(a) THEN a ELSE b

\* isNaN(Number(v))
IsNaNNumber(v) == ToNumber(v).t = "NaN"

----------------------------------------------------------------------------
(* Array helpers *)

\* Array.prototype.map
Map(F(_), seq) == [i \in 1..Len(seq) |-> F(seq[i])]

\* Array.prototype.findIndex, 1-based; 0 stands for JavaScript's -1
FindIndex(seq, P(_)) ==
    IF \E i \in 1..Len(seq) : P(seq[i])
    THEN CHOOSE i \in 1..Len(seq) : P(seq[i]) /\ \A j \in 1..(i - 1) : ~P(seq[j])
    ELSE 0

\* copy.splice(idx + 1, 0, x) for a 0-based idx: x lands after the first
\* `pos` elements, where pos is the 1-based index (0 when idx is -1)
Splice(seq, pos, x) ==
    SubSeq(seq, 1, pos) \o <<x>> \o SubSeq(seq, pos + 1, Len(seq))

\* `${prefix}${Date.now()}`
TimeId(prefix, t) == prefix \o ToString(t)

\* an absent optional argument (undefined)
NoId == ""

----------------------------------------------------------------------------
(* EditableSpreadsheet: data *)

Bool(b) == [t |-> "boolean", n |-> IF b THEN 1 ELSE 0, s |-> <<>>]

\* !v for the values a row's `selected` takes (undefined, true, false)
Not(v) == Bool(~(v.t = "boolean" /\ v.n = 1))

Column(id, name, type) == [id |-> id, name |-> name, type |-> type]

Row(id, cells, selected) == [id |-> id, cells |-> cells, selected |-> selected]

DynamicSheet(id, name, columns, rows) ==
    [id |-> id, name |-> name, columns |-> columns, rows |-> rows]

DEFAULT_COLUMNS ==
    << Column("nombre", "Producto", "text"),
       Column("stock_actual", "Stock Actual", "number"),
       Column("stock_minimo", "Stock Mínimo", "number"),
       Column("stock_maximo", "Stock Máximo", "number"),
       Column("coste", "Coste Unit.", "number") >>

MONTH_NAMES ==
    << "Enero", "Febrero", "Marzo", "Abril", "Mayo", "Junio",
       "Julio", "Agosto", "Septiembre", "Octubre", "Noviembre", "Diciembre" >>

createDefaultSheets ==
    [idx \in 1..Len(MONTH_NAMES) |->
        DynamicSheet(TimeId("month-", idx), MONTH_NAMES[idx], DEFAULT_COLUMNS, <<>>)]

\* sheets.find(s => s.id === activeSheetId) || sheets[0]
ActiveSheet(ss, act) ==
    LET idx == FindIndex(ss, LAMBDA s : s.id = act)
    IN  IF idx = 0 THEN ss[1] ELSE ss[idx]

\* sheets.map(s => s.id === activeSheetId ? F(s) : s)
MapActive(ss, act, F(_)) ==
    [i \in 1..Len(ss) |-> IF ss[i].id = act THEN F(ss[i]) ELSE ss[i]]

\* row.cells[col.id]: undefined when the row has no such key
Cell(row, columnId) ==
    IF columnId \in DOMAIN row.cells THEN row.cells[columnId] ELSE Undefined

\* { ...cells, [columnId]: value }
SetKey(cells, columnId, value) ==
    [k \in DOMAIN cells \cup {columnId} |-> IF k = columnId THEN value ELSE cells[k]]

\* const { [columnId]: _, ...restCells } = cells
RestCells(cells, columnId) == [k \in DOMAIN cells \ {columnId} |-> cells[k]]

----------------------------------------------------------------------------
(* EditableSpreadsheet: what each handler passes to updateSheets, computed *)
(* from the rendered sheets `ss` and active sheet id `act`                 *)

toggleColumnType(ss, act, columnId) ==
    MapActive(ss, act, LAMBDA s :
        [s EXCEPT !.columns = Map(LAMBDA c :
            IF c.id = columnId
            THEN [c EXCEPT !.type = IF c.type = "text" THEN "number" ELSE "text"]
            ELSE c, s.columns)])

addSheet(ss, t) ==
    Append(ss, DynamicSheet(TimeId("sheet-", t),
                            "Hoja " \o ToString(Len(ss) + 1),
                            DEFAULT_COLUMNS, <<>>))

\* sheets.filter(s => s.id !== sheetId)
deleteSheetFilter(ss, sheetId) == SelectSeq(ss, LAMBDA s : s.id # sheetId)

renameSheet(ss, sheetId, newName) ==
    Map(LAMBDA s : IF s.id = sheetId THEN [s EXCEPT !.name = newName] ELSE s, ss)

\* addColumn: newColumn
addColumnNewColumn(ss, act, t) ==
    Column(TimeId("col-", t),
           "Columna " \o ToString(Len(ActiveSheet(ss, act).columns) + 1),
           "text")

\* addColumn: newColumns
addColumnColumns(columns, afterColumnId, newColumn) ==
    IF afterColumnId # NoId
    THEN Splice(columns, FindIndex(columns, LAMBDA c : c.id = afterColumnId), newColumn)
    ELSE Append(columns, newColumn)

\* addColumnRows without the new key: the rows are passed on as they are
addColumnRowsForgotten(rows, newColumnId) == rows

\* addColumn: newRows ("Add empty cell to all rows")
addColumnRows(rows, newColumnId) ==
    Map(LAMBDA row : [row EXCEPT !.cells = SetKey(row.cells, newColumnId, Null)], rows)

addColumn(ss, act, afterColumnId, t) ==
    LET activeSheet == ActiveSheet(ss, act)
        newColumn == addColumnNewColumn(ss, act, t)
        newColumns == addColumnColumns(activeSheet.columns, afterColumnId, newColumn)
        newRows == addColumnRows(activeSheet.rows, newColumn.id)
    IN  MapActive(ss, act, LAMBDA s : [s EXCEPT !.columns = newColumns, !.rows = newRows])

\* deleteColumn: newColumns
deleteColumnColumns(columns, columnId) == SelectSeq(columns, LAMBDA c : c.id # columnId)

\* deleteColumn: newRows
deleteColumnRows(rows, columnId) ==
    Map(LAMBDA row : [row EXCEPT !.cells = RestCells(row.cells, columnId)], rows)

\* deleteColumn: the early return
deleteColumnRejected(ss, act) == Len(ActiveSheet(ss, act).columns) <= 1

deleteColumn(ss, act, columnId) ==
    LET activeSheet == ActiveSheet(ss, act)
        newColumns == deleteColumnColumns(activeSheet.columns, columnId)
        newRows == deleteColumnRows(activeSheet.rows, columnId)
    IN  MapActive(ss, act, LAMBDA s : [s EXCEPT !.columns = newColumns, !.rows = newRows])

renameColumn(ss, act, columnId, newName) ==
    MapActive(ss, act, LAMBDA s :
        [s EXCEPT !.columns = Map(LAMBDA c :
            IF c.id = columnId THEN [c EXCEPT !.name = newName] ELSE c, s.columns)])

\* addRow: newRow; `selected` is left undefined
addRowNewRow(columns, t) ==
    Row(TimeId("row-", t), [k \in {columns[i].id : i \in 1..Len(columns)} |-> Null], Undefined)

\* addRow without the afterRowId branch: the new row always goes last
addRowAtEnd(ss, act, afterRowId, t) ==
    LET activeSheet == ActiveSheet(ss, act)
        newRow == addRowNewRow(activeSheet.columns, t)
    IN  MapActive(ss, act, LAMBDA s : [s EXCEPT !.rows = Append(activeSheet.rows, newRow)])

addRow(ss, act, afterRowId, t) ==
    LET activeSheet == ActiveSheet(ss, act)
        newRow == addRowNewRow(activeSheet.columns, t)
        newRows == IF afterRowId # NoId
                   THEN Splice(activeSheet.rows,
                               FindIndex(activeSheet.rows, LAMBDA r : r.id = afterRowId),
                               newRow)
                   ELSE Append(activeSheet.rows, newRow)
    IN  MapActive(ss, act, LAMBDA s : [s EXCEPT !.rows = newRows])

deleteRow(ss, act, rowId) ==
    MapActive(ss, act, LAMBDA s :
        [s EXCEPT !.rows = SelectSeq(s.rows, LAMBDA r : r.id # rowId)])

updateCell(ss, act, rowId, columnId, value) ==
    MapActive(ss, act, LAMBDA s :
        [s EXCEPT !.rows = Map(LAMBDA r :
            IF r.id = rowId
            THEN [r EXCEPT !.cells = SetKey(r.cells, columnId, value)]
            ELSE r, s.rows)])

\* cellInputValue without the `|| null`: Number(text) is stored as it is
cellInputValueUncoalesced(type, text) ==
    IF type = "number" THEN ToNumber(Str(text)) ELSE Str(text)

\* the cell <input>'s onChange: the value handed to updateCell for the text
\* e.target.value typed into a column of the rendered type
cellInputValue(type, text) ==
    IF type = "number" THEN Or(ToNumber(Str(text)), Null) ELSE Str(text)

toggleSelectRow(ss, act, rowId) ==
    MapActive(ss, act, LAMBDA s :
        [s EXCEPT !.rows = Map(LAMBDA r :
            IF r.id = rowId THEN [r EXCEPT !.selected = Not(r.selected)] ELSE r, s.rows)])

toggleSelectAll(ss, act) ==
    LET activeSheet == ActiveSheet(ss, act)
        allSelected == \A i \in 1..Len(activeSheet.rows) : Truthy(activeSheet.rows[i].selected)
    IN  MapActive(ss, act, LAMBDA s :
            [s EXCEPT !.rows = Map(LAMBDA r : [r EXCEPT !.selected = Bool(~allSelected)],
                                   s.rows)])

----------------------------------------------------------------------------
(* parseExcelFile: a workbook is a sequence of tables [name, jsonData];    *)
(* jsonData is what sheet_to_json(worksheet, {header: 1}) returns: the     *)
(* header row (column names, "" for a blank header) followed by the data   *)
(* rows (sequences of values)                                              *)

\* "Check up to 10 rows"
SAMPLE_ROWS == 10

\* crypto.randomUUID(): the idx-th identifier of kind `kind` drawn while
\* table number `table` is parsed; no two calls return the same text
generateId(table, kind, idx) == "u" \o ToString(table) \o kind \o ToString(idx)

\* rowArray[idx]: undefined past the end of the row
RawAt(rowArray, idx) == IF idx <= Len(rowArray) THEN rowArray[idx] ELSE Undefined

\* val !== undefined && val !== null && val !== ''
NonEmpty(val) == ~(val.t \in {"undefined", "null"}) /\ val # Str(<<>>)

Min(a, b) == IF a <= b THEN a ELSE b

\* the detection loop, from data row i on; returns <<isNumber, hasContent>>
RECURSIVE DetectLoop(_, _, _, _, _)
DetectLoop(rawRows, colIndex, i, isNumber, hasContent) ==
    IF i > Min(Len(rawRows), SAMPLE_ROWS) THEN <<isNumber, hasContent>>
    ELSE LET val == RawAt(rawRows[i], colIndex)
         IN  IF NonEmpty(val)
             THEN IF IsNaNNumber(val)
                  THEN <<FALSE, TRUE>>
                  ELSE DetectLoop(rawRows, colIndex, i + 1, isNumber, TRUE)
             ELSE DetectLoop(rawRows, colIndex, i + 1, isNumber, hasContent)

\* detectColumnType without hasContent: an empty sample gives a number column
detectColumnTypeAnyContent(rawRows, colIndex) ==
    IF DetectLoop(rawRows, colIndex, 1, TRUE, FALSE)[1] THEN "number" ELSE "text"

detectColumnType(rawRows, colIndex) ==
    LET r == DetectLoop(rawRows, colIndex, 1, TRUE, FALSE)
    IN  IF r[2] /\ r[1] THEN "number" ELSE "text"

parseColumns(table, headers, rawRows) ==
    [colIndex \in 1..Len(headers) |->
        Column("col-" \o generateId(table, "c", colIndex),
               IF headers[colIndex] # "" THEN headers[colIndex] ELSE "Sin título",
               detectColumnType(rawRows, colIndex))]

\* parseCellValue without the last branch: an absent field is stored as it is
parseCellValueUnfilled(type, value) ==
    IF type = "number" /\ ~(value.t \in {"null", "undefined"}) THEN ToNumber(value)
    ELSE value

\* the value stored for one source field
parseCellValue(type, value) ==
    IF type = "number" /\ ~(value.t \in {"null", "undefined"}) THEN ToNumber(value)
    ELSE IF ~(value.t \in {"null", "undefined"})
    THEN IF value.t \in {"string", "number", "NaN"} THEN value
         ELSE Str(IF Truthy(value) THEN <<"t", "r", "u", "e">>
                                   ELSE <<"f", "a", "l", "s", "e">>)
    ELSE Null

parseRows(table, columns, rawRows) ==
    [r \in 1..Len(rawRows) |->
        Row("row-" \o generateId(table, "r", r),
            [k \in {columns[i].id : i \in 1..Len(columns)} |->
                LET idx == CHOOSE i \in 1..Len(columns) : columns[i].id = k
                IN  parseCellValue(columns[idx].type, RawAt(rawRows[r], idx))],
            Undefined)]

parseSheet(table, tab) ==
    LET headers == Head(tab.jsonData)
        rawRows == Tail(tab.jsonData)
        columns == parseColumns(table, headers, rawRows)
    IN  DynamicSheet("sheet-" \o generateId(table, "s", 0), tab.name, columns,
                     parseRows(table, columns, rawRows))

\* workbook.SheetNames.forEach: a table with no rows at all is skipped
RECURSIVE parseTables(_, _)
parseTables(workbook, table) ==
    IF table > Len(workbook) THEN <<>>
    ELSE IF Len(workbook[table].jsonData) = 0
         THEN parseTables(workbook, table + 1)
         ELSE <<parseSheet(table, workbook[table])>> \o parseTables(workbook, table + 1)

parseExcelFile(workbook) == parseTables(workbook, 1)

----------------------------------------------------------------------------
(* DashboardPage: the export projections *)

\* the names of the columns of a sheet
ColumnNames(columns) == {columns[i].name : i \in 1..Len(columns)}

\* RowObject where the first column of a name keeps its entry
RowObjectFirstWins(columns, row) ==
    [name \in {columns[i].name : i \in 1..Len(columns)} |->
        LET first == CHOOSE i \in 1..Len(columns) :
                        /\ columns[i].name = name
                        /\ \A j \in 1..(i - 1) : columns[j].name # name
        IN  Cell(row, columns[first].id)]

\* RowObject keyed by the column's id instead of its name
RowObjectById(columns, row) ==
    [id \in {columns[i].id : i \in 1..Len(columns)} |-> Cell(row, id)]

\* columns.forEach(col => obj[col.name] = row.cells[col.id]): a later column
\* of the same name overwrites the entry of an earlier one
RowObject(columns, row) ==
    [name \in ColumnNames(columns) |->
        LET last == CHOOSE i \in 1..Len(columns) :
                       /\ columns[i].name = name
                       /\ \A j \in (i + 1)..Len(columns) : columns[j].name # name
        IN  Cell(row, columns[last].id)]

getSpreadsheetDataForAI(data) ==
    IF Len(data) = 0 THEN <<>>
    ELSE LET activeSheet == data[1]
         IN  Map(LAMBDA row :
                    LET obj == RowObject(activeSheet.columns, row)
                    IN  [k \in DOMAIN obj \cup {"_selected"} |->
                            IF k = "_selected" THEN row.selected ELSE obj[k]],
                 activeSheet.rows)

\* rowsToUse without the fallback to all rows
rowsToUseSelectedOnly(rows) == SelectSeq(rows, LAMBDA r : Truthy(r.selected))

\* getSelectedData: rowsToUse
rowsToUse(rows) ==
    LET selectedRows == SelectSeq(rows, LAMBDA r : Truthy(r.selected))
    IN  IF Len(selectedRows) > 0 THEN selectedRows ELSE rows

getSelectedData(data) ==
    IF Len(data) = 0 THEN <<>>
    ELSE LET activeSheet == data[1]
         IN  Map(LAMBDA row : RowObject(activeSheet.columns, row),
                 rowsToUse(activeSheet.rows))

----------------------------------------------------------------------------
(* Stock classification and the dashboard's aggregates *)

\* a < b, a >= b, a <= b, a > b on JavaScript numbers: false when either is NaN
Lt(a, b) == a.t = "number" /\ b.t = "number" /\ a.n < b.n

Ge(a, b) == a.t = "number" /\ b.t = "number" /\ a.n >= b.n

Le(a, b) == a.t = "number" /\ b.t = "number" /\ a.n <= b.n

Gt(a, b) == a.t = "number" /\ b.t = "number" /\ a.n > b.n

\* a + b and a * b on JavaScript numbers
Add(a, b) == IF a.t = "number" /\ b.t = "number" THEN Num(a.n + b.n) ELSE NaN

Mul(a, b) == IF a.t = "number" /\ b.t = "number" THEN Num(a.n * b.n) ELSE NaN

\* getStockStatus with `>` in place of `>=` on the maximum
getStockStatusAbove(stockActual, stockMin, stockMax) ==
    IF Lt(stockActual, stockMin) THEN "bajo"
    ELSE IF Gt(stockActual, stockMax) THEN "alto"
    ELSE "correcto"

getStockStatus(stockActual, stockMin, stockMax) ==
    IF Lt(stockActual, stockMin) THEN "bajo"
    ELSE IF Ge(stockActual, stockMax) THEN "alto"
    ELSE "correcto"

\* useState(10), useState(100)
DEFAULT_STOCK_MINIMO == Num(10)

DEFAULT_STOCK_MAXIMO == Num(100)

\* row[name]: undefined when the record has no such entry
Field(row, name) == IF name \in DOMAIN row THEN row[name] ELSE Undefined

\* Number(row['Stock Actual'] || row['stock_actual'] || row['Stock'] || 0)
rowStock(row) ==
    ToNumber(Or(Or(Or(Field(row, "Stock Actual"), Field(row, "stock_actual")),
                   Field(row, "Stock")), Num(0)))

\* rowCost reading the first alias only
rowCostUnitOnly(row) == ToNumber(Or(Field(row, "Coste Unit."), Num(0)))

\* Number(row['Coste Unit.'] || row['coste_unitario'] || row['Coste'] || row['Precio'] || 0)
rowCost(row) ==
    ToNumber(Or(Or(Or(Or(Field(row, "Coste Unit."), Field(row, "coste_unitario")),
                      Field(row, "Coste")), Field(row, "Precio")), Num(0)))

\* the sum of the values, as the forEach loop accumulates it from 0
RECURSIVE Sum(_)
Sum(values) ==
    IF values = <<>> THEN Num(0)
    ELSE Add(Sum(SubSeq(values, 1, Len(values) - 1)), values[Len(values)])

\* data.filter(P).length
CountOf(data, P(_)) == Cardinality({i \in 1..Len(data) : P(data[i])})

\* handleCalculate: 'Stock Actual' in row || 'stock_actual' in row || 'Stock' in row
hasStockColumn(data) ==
    \E i \in 1..Len(data) :
        {"Stock Actual", "stock_actual", "Stock"} \cap DOMAIN data[i] # {}

\* handleCalculate: the StockCalculation it builds; media_coste_unitario is
\* kept as the quotient's two terms, totalCoste over countWithCost (0 over 1
\* when no row has a cost)
StockCalculation(data, stockMin, stockMax) ==
    LET withCost == {i \in 1..Len(data) : Gt(rowCost(data[i]), Num(0))}
        totalCoste == Sum(Map(LAMBDA row :
                          IF Gt(rowCost(row), Num(0)) THEN rowCost(row) ELSE Num(0), data))
    IN  [ total_productos |-> Len(data),
          total_stock |-> Sum(Map(rowStock, data)),
          media_coste_unitario |->
              IF Cardinality(withCost) > 0
              THEN [num |-> totalCoste, den |-> Cardinality(withCost)]
              ELSE [num |-> Num(0), den |-> 1],
          productos_bajo_stock |->
              CountOf(data, LAMBDA row : Lt(rowStock(row), stockMin)),
          productos_stock_correcto |->
              CountOf(data, LAMBDA row :
                  Ge(rowStock(row), stockMin) /\ Le(rowStock(row), stockMax)),
          productos_alto_stock |->
              CountOf(data, LAMBDA row : Gt(rowStock(row), stockMax)) ]

\* KPICards: Number(item['Stock Mínimo'] || item.stock_minimo || stockMinimo)
itemMinStock(item, stockMin) ==
    ToNumber(Or(Or(Field(item, "Stock Mínimo"), Field(item, "stock_minimo")), stockMin))

\* KPICards: Number(item['Stock Máximo'] || item.stock_maximo || stockMaximo)
itemMaxStock(item, stockMax) ==
    ToNumber(Or(Or(Field(item, "Stock Máximo"), Field(item, "stock_maximo")), stockMax))

\* KPICards: the totals and the counts of the kpis it computes from its props
KPICards(data, stockMin, stockMax) ==
    [ totalProducts |-> Len(data),
      totalStock |-> Sum(Map(rowStock, data)),
      inventoryValue |-> Sum(Map(LAMBDA item : Mul(rowStock(item), rowCost(item)), data)),
      criticalProducts |->
          CountOf(data, LAMBDA item : Lt(rowStock(item), itemMinStock(item, stockMin))),
      excessProducts |->
          CountOf(data, LAMBDA item :
              /\ ~Lt(rowStock(item), itemMinStock(item, stockMin))
              /\ Gt(rowStock(item), itemMaxStock(item, stockMax))),
      healthyProducts |->
          CountOf(data, LAMBDA item :
              /\ ~Lt(rowStock(item), itemMinStock(item, stockMin))
              /\ ~Gt(rowStock(item), itemMaxStock(item, stockMax))) ]

\* getStockStatus has not been called
NotCalled == [stockActual |-> Null, stockMinimo |-> Null, stockMaximo |-> Null, status |-> ""]

----------------------------------------------------------------------------
(* The jobs table: one row, [status, output, error]; "" stands for null *)

\* no row has been inserted
NoJob == [status |-> "", output |-> "", error |-> ""]

\* no request body has been read
NoPayload == [status |-> "", output |-> "", error |-> ""]

\* .insert({ user_id, status: 'pending', input })
insertJob == [status |-> "pending", output |-> "", error |-> ""]

\* the webhook's updateData applied to the row: status always, output with
\* 'completed', error with 'failed'
webhookUpdate(row, payload) ==
    [ status |-> payload.status,
      output |-> IF payload.status = "completed" THEN payload.output ELSE row.output,
      error |-> IF payload.status = "failed" THEN payload.error ELSE row.error ]

\* existingJob.status === 'completed' || existingJob.status === 'failed'
Finished(status) == status \in {"completed", "failed"}

----------------------------------------------------------------------------
(* The inputs the handlers are driven with *)

\* the bodies n8n posts to the callback route
Payloads ==
    { [status |-> "completed", output |-> "chart-1", error |-> ""],
      [status |-> "completed", output |-> "chart-2", error |-> ""],
      [status |-> "failed", output |-> "", error |-> "timeout"],
      [status |-> "running", output |-> "", error |-> ""] }

\* the data n8n answers the trigger with
ImmediateOutputs == {"chart-0"}

\* e.target.value of the threshold <input>s
ThresholdTexts == { <<"7">> }

\* e.target.value of a cell <input>
CellTexts == { <<>>, <<"0">>, <<"7">>, <<"a", "b", "c">>, <<"7", "x">> }

\* the name typed into a column header
ColumnNameInputs == {"Stock"}

\* the name typed into a sheet tab
SheetNameInputs == {"Stock"}

TableStock ==
    [name |-> "Stock", jsonData |-> << <<"Stock">>, <<Num(7)>> >>]

TableProductoStock ==
    [name |-> "Inventario",
     jsonData |-> << <<"Producto", "Stock">>,
                     <<Str(<<"A">>), Str(<<"5", "0">>)>>,
                     <<Str(<<"B">>), Str(<<"a", "b", "c">>)>> >>]

TableHeaderOnly ==
    [name |-> "Vacía", jsonData |-> << <<"Producto", "">> >>]

TableEmpty ==
    [name |-> "Nada", jsonData |-> <<>>]

\* SAMPLE_ROWS numeric rows, then a text
TableLong ==
    [name |-> "Largo",
     jsonData |-> << <<"Stock">> >>
                  \o [i \in 1..SAMPLE_ROWS |-> <<Num(i)>>]
                  \o << <<Str(<<"a", "b", "c">>)>> >>]

\* a blank header, an empty text, null, booleans, rows shorter and longer
\* than the header row
TableMixed ==
    [name |-> "Mixta",
     jsonData |-> << <<"Producto", "Stock", "Activo", "">>,
                     <<Str(<<"A">>), Str(<<"5">>), Bool(TRUE), Null>>,
                     <<Str(<<"B">>), Str(<<>>), Null>>,
                     <<Str(<<"C">>)>>,
                     <<Str(<<"D">>), Num(3), Bool(FALSE), Null, Str(<<"x">>)>> >>]

\* the workbooks the user may pick
Workbooks ==
    { <<TableStock>>, <<TableProductoStock>>, <<TableEmpty>>,
      <<TableHeaderOnly, TableStock>>, <<TableLong>>, <<TableEmpty, TableMixed>> }

\* the inventory of two products with their unit costs
TableInventory ==
    [name |-> "Inventario",
     jsonData |-> << <<"Nombre", "Stock Actual", "Coste">>,
                     <<Str(<<"X">>), Num(5), Num(2)>>,
                     <<Str(<<"Y">>), Num(50), Num(3)>> >>]

\* an inventory where a product has a unit cost of 0
TableFreeProduct ==
    [name |-> "Muestras",
     jsonData |-> << <<"Nombre", "Stock Actual", "Coste">>,
                     <<Str(<<"X">>), Num(8), Num(2)>>,
                     <<Str(<<"Y">>), Num(50), Num(0)>> >>]

\* the workbooks with a stock and a cost column the user may pick
InventoryWorkbooks == { <<TableInventory>>, <<TableFreeProduct>>, <<TableProductoStock>> }

\* the positions the user acts on, in a list of n elements
ArgPos(n) == {i \in 1..n : i <= MaxArgPos \/ i = n}

\* the values Date.now() can return next
ClockValues == {t \in {now, now + 1} : 1 <= t /\ t <= MaxClock}

\* no handler ran earlier in the same render
NoEdit == [b |-> NoId, text |-> <<>>]

\* history: the handler that ran, its id arguments, the text typed, the
\* workbook read (<<>> when none) and the call handled before it in the same
\* render (its column id and text); read by the properties only
Op(op, a, b) ==
    [op |-> op, a |-> a, b |-> b, text |-> <<>>, file |-> <<>>, first |-> NoEdit]

----------------------------------------------------------------------------
(* The state machine *)

\* DashboardPage mounts with no data; the editor gets initialSheets = undefined
Init ==
    /\ spreadsheetData = <<>>
    /\ error = ""
    /\ sheets = createDefaultSheets
    /\ activeSheetId = createDefaultSheets[1].id
    /\ mounted = TRUE
    /\ now = 0
    /\ budget = MaxSteps
    /\ lastOp = Op("init", NoId, NoId)
    /\ stockMinimo = DEFAULT_STOCK_MINIMO
    /\ stockMaximo = DEFAULT_STOCK_MAXIMO
    /\ calculation = Null
    /\ stockStatus = NotCalled
    /\ job = NoJob
    /\ creation = "idle"
    /\ callbacks = [c \in 1..MaxCallbacks |-> [pc |-> "idle", payload |-> NoPayload]]

\* a handler can run: the editor is rendered
CanAct == mounted /\ budget > 0

\* updateSheets: setSheets(newSheets); onChange?.(newSheets), where onChange
\* is the host's setSpreadsheetData. The next render reads activeSheet.rows
\* and throws when there is no sheet left.
updateSheets(newSheets) ==
    /\ sheets' = newSheets
    /\ spreadsheetData' = newSheets
    /\ mounted' = (Len(newSheets) > 0)

activeSheet == ActiveSheet(sheets, activeSheetId)

\* onClick of a tab
SetActiveSheet ==
    \E i \in ArgPos(Len(sheets)) :
        /\ CanAct
        /\ activeSheetId' = sheets[i].id
        /\ budget' = budget - 1
        /\ UNCHANGED dashboard
        /\ lastOp' = Op("setActiveSheetId", sheets[i].id, NoId)
        /\ UNCHANGED <<sheets, mounted, spreadsheetData, error, now>>

AddSheet ==
    \E t \in ClockValues :
        /\ CanAct
        /\ updateSheets(addSheet(sheets, t))
        /\ activeSheetId' = TimeId("sheet-", t)
        /\ now' = t
        /\ budget' = budget - 1
        /\ UNCHANGED dashboard
        /\ lastOp' = Op("addSheet", NoId, TimeId("sheet-", t))
        /\ UNCHANGED error

\* deleteSheet: returns early on the last sheet; newSheets[0].id throws
\* after updateSheets when nothing is left
DeleteSheet ==
    \E i \in ArgPos(Len(sheets)) :
        LET sheetId == sheets[i].id
            newSheets == deleteSheetFilter(sheets, sheetId)
        IN  /\ CanAct
            /\ IF Len(sheets) <= 1
               THEN UNCHANGED <<sheets, spreadsheetData, mounted, activeSheetId>>
               ELSE /\ updateSheets(newSheets)
                    /\ activeSheetId' = IF activeSheetId = sheetId /\ Len(newSheets) > 0
                                        THEN newSheets[1].id
                                        ELSE activeSheetId
            /\ budget' = budget - 1
            /\ UNCHANGED dashboard
            /\ lastOp' = Op("deleteSheet", sheetId, NoId)
            /\ UNCHANGED <<error, now>>

RenameSheet ==
    \E i \in ArgPos(Len(sheets)), newName \in SheetNameInputs :
        /\ CanAct
        /\ updateSheets(renameSheet(sheets, sheets[i].id, newName))
        /\ budget' = budget - 1
        /\ UNCHANGED dashboard
        /\ lastOp' = Op("renameSheet", sheets[i].id, newName)
        /\ UNCHANGED <<activeSheetId, error, now>>

ToggleColumnType ==
    \E i \in ArgPos(Len(activeSheet.columns)) :
        /\ CanAct
        /\ updateSheets(toggleColumnType(sheets, activeSheetId, activeSheet.columns[i].id))
        /\ budget' = budget - 1
        /\ UNCHANGED dashboard
        /\ lastOp' = Op("toggleColumnType", activeSheet.columns[i].id, NoId)
        /\ UNCHANGED <<activeSheetId, error, now>>

AddColumn ==
    \E t \in ClockValues,
       afterColumnId \in {NoId} \cup {activeSheet.columns[i].id :
                                          i \in ArgPos(Len(activeSheet.columns))} :
        /\ CanAct
        /\ updateSheets(addColumn(sheets, activeSheetId, afterColumnId, t))
        /\ now' = t
        /\ budget' = budget - 1
        /\ UNCHANGED dashboard
        /\ lastOp' = Op("addColumn", afterColumnId, TimeId("col-", t))
        /\ UNCHANGED <<activeSheetId, error>>

DeleteColumn ==
    \E i \in ArgPos(Len(activeSheet.columns)) :
        LET columnId == activeSheet.columns[i].id
        IN  /\ CanAct
            /\ IF deleteColumnRejected(sheets, activeSheetId)
               THEN UNCHANGED <<sheets, spreadsheetData, mounted>>
               ELSE updateSheets(deleteColumn(sheets, activeSheetId, columnId))
            /\ budget' = budget - 1
            /\ UNCHANGED dashboard
            /\ lastOp' = Op("deleteColumn", columnId, NoId)
            /\ UNCHANGED <<activeSheetId, error, now>>

RenameColumn ==
    \E i \in ArgPos(Len(activeSheet.columns)), newName \in ColumnNameInputs :
        /\ CanAct
        /\ updateSheets(renameColumn(sheets, activeSheetId, activeSheet.columns[i].id, newName))
        /\ budget' = budget - 1
        /\ UNCHANGED dashboard
        /\ lastOp' = Op("renameColumn", activeSheet.columns[i].id, newName)
        /\ UNCHANGED <<activeSheetId, error, now>>

AddRow ==
    \E t \in ClockValues,
       afterRowId \in {NoId} \cup {activeSheet.rows[i].id :
                                       i \in ArgPos(Len(activeSheet.rows))} :
        /\ CanAct
        /\ updateSheets(addRow(sheets, activeSheetId, afterRowId, t))
        /\ now' = t
        /\ budget' = budget - 1
        /\ UNCHANGED dashboard
        /\ lastOp' = Op("addRow", afterRowId, TimeId("row-", t))
        /\ UNCHANGED <<activeSheetId, error>>

DeleteRow ==
    \E i \in ArgPos(Len(activeSheet.rows)) :
        /\ CanAct
        /\ updateSheets(deleteRow(sheets, activeSheetId, activeSheet.rows[i].id))
        /\ budget' = budget - 1
        /\ UNCHANGED dashboard
        /\ lastOp' = Op("deleteRow", activeSheet.rows[i].id, NoId)
        /\ UNCHANGED <<activeSheetId, error, now>>

\* onChange of the <input> rendered for row i, column j of the active sheet
UpdateCell ==
    \E i \in ArgPos(Len(activeSheet.rows)), j \in ArgPos(Len(activeSheet.columns)),
       text \in CellTexts :
        LET row == activeSheet.rows[i]
            col == activeSheet.columns[j]
        IN  /\ CanAct
            /\ updateSheets(updateCell(sheets, activeSheetId, row.id, col.id,
                                       cellInputValue(col.type, text)))
            /\ budget' = budget - 1
            /\ UNCHANGED dashboard
            /\ lastOp' = [Op("updateCell", row.id, col.id) EXCEPT !.text = text]
            /\ UNCHANGED <<activeSheetId, error, now>>

\* onChange of two <input>s of row i, handled before the editor renders
\* again: both handlers hold the `sheets` of the same render, and the
\* setSheets and onChange of the second replace those of the first
UpdateCellSameRender ==
    \E i \in ArgPos(Len(activeSheet.rows)),
       j1 \in ArgPos(Len(activeSheet.columns)), j2 \in ArgPos(Len(activeSheet.columns)),
       text1 \in CellTexts, text2 \in CellTexts :
        LET row == activeSheet.rows[i]
            col1 == activeSheet.columns[j1]
            col2 == activeSheet.columns[j2]
            first == updateCell(sheets, activeSheetId, row.id, col1.id,
                                cellInputValue(col1.type, text1))
            second == updateCell(sheets, activeSheetId, row.id, col2.id,
                                 cellInputValue(col2.type, text2))
        IN  /\ CanAct
            /\ col1.id # col2.id
            /\ updateSheets(second)
            /\ budget' = budget - 1
            /\ UNCHANGED dashboard
            /\ lastOp' = [Op("updateCellSameRender", row.id, col2.id) EXCEPT
                              !.text = text2, !.first = [b |-> col1.id, text |-> text1]]
            /\ UNCHANGED <<activeSheetId, error, now>>

ToggleSelectRow ==
    \E i \in ArgPos(Len(activeSheet.rows)) :
        /\ CanAct
        /\ updateSheets(toggleSelectRow(sheets, activeSheetId, activeSheet.rows[i].id))
        /\ budget' = budget - 1
        /\ UNCHANGED dashboard
        /\ lastOp' = Op("toggleSelectRow", activeSheet.rows[i].id, NoId)
        /\ UNCHANGED <<activeSheetId, error, now>>

ToggleSelectAll ==
    /\ CanAct
    /\ updateSheets(toggleSelectAll(sheets, activeSheetId))
    /\ budget' = budget - 1
    /\ UNCHANGED dashboard
    /\ lastOp' = Op("toggleSelectAll", NoId, NoId)
    /\ UNCHANGED <<activeSheetId, error, now>>

\* handleFileChange, parseExcelFile resolved: the host replaces its data and
\* bumps sheetVersion, which remounts the editor on
\* initialSheets = spreadsheetData.length > 0 ? spreadsheetData : undefined
ImportFrom(workbooks) ==
    \E workbook \in workbooks :
        LET parsed == parseExcelFile(workbook)
            initialSheets == IF Len(parsed) > 0 THEN parsed ELSE createDefaultSheets
        IN  /\ CanAct
            /\ spreadsheetData' = parsed
            /\ error' = ""
            /\ sheets' = initialSheets
            /\ activeSheetId' = initialSheets[1].id
            /\ mounted' = TRUE
            /\ budget' = budget - 1
            /\ UNCHANGED dashboard
            /\ lastOp' = [Op("import", NoId, NoId) EXCEPT !.file = workbook]
            /\ UNCHANGED now

\* the user picks one of the workbooks
ImportFile == ImportFrom(Workbooks)

\* ImportFailed keeping the sheets parsed before the failure
ImportFailedMerging ==
    \E workbook \in Workbooks :
        /\ CanAct
        /\ error' = "Error al importar el archivo Excel"
        /\ spreadsheetData' = spreadsheetData \o parseExcelFile(workbook)
        /\ budget' = budget - 1
        /\ UNCHANGED dashboard
        /\ lastOp' = [Op("importFailed", NoId, NoId) EXCEPT !.file = workbook]
        /\ UNCHANGED <<sheets, activeSheetId, mounted, now>>

\* handleFileChange, parseExcelFile rejected while reading the workbook: the
\* sheets parsed so far are local to parseExcelFile and are dropped
ImportFailed ==
    \E workbook \in Workbooks :
        /\ CanAct
        /\ error' = "Error al importar el archivo Excel"
        /\ budget' = budget - 1
        /\ UNCHANGED dashboard
        /\ lastOp' = [Op("importFailed", NoId, NoId) EXCEPT !.file = workbook]
        /\ UNCHANGED <<sheets, activeSheetId, mounted, spreadsheetData, now>>

\* onChange of the Stock Mínimo <input>
SetStockMinimo ==
    \E text \in ThresholdTexts :
        /\ CanAct
        /\ stockMinimo' = ToNumber(Str(text))
        /\ budget' = budget - 1
        /\ lastOp' = [Op("setStockMinimo", NoId, NoId) EXCEPT !.text = text]
        /\ UNCHANGED <<sheets, activeSheetId, mounted, spreadsheetData, error, now,
                       stockMaximo, calculation, stockStatus, server>>

\* onChange of the Stock Máximo <input>
SetStockMaximo ==
    \E text \in ThresholdTexts :
        /\ CanAct
        /\ stockMaximo' = ToNumber(Str(text))
        /\ budget' = budget - 1
        /\ lastOp' = [Op("setStockMaximo", NoId, NoId) EXCEPT !.text = text]
        /\ UNCHANGED <<sheets, activeSheetId, mounted, spreadsheetData, error, now,
                       stockMinimo, calculation, stockStatus, server>>

\* onClick of CALCULAR
HandleCalculate ==
    LET data == getSpreadsheetDataForAI(spreadsheetData)
    IN  /\ CanAct
        /\ IF Len(data) = 0
           THEN error' = "Añade datos a la hoja primero" /\ UNCHANGED calculation
           ELSE IF ~hasStockColumn(data)
           THEN error' = "La hoja debe tener una columna de Stock" /\ UNCHANGED calculation
           ELSE /\ calculation' = StockCalculation(data, stockMinimo, stockMaximo)
                /\ error' = ""
        /\ budget' = budget - 1
        /\ lastOp' = Op("handleCalculate", NoId, NoId)
        /\ UNCHANGED <<sheets, activeSheetId, mounted, spreadsheetData, now,
                       stockMinimo, stockMaximo, stockStatus, server>>

Next ==
    \/ SetStockMinimo
    \/ SetStockMaximo
    \/ HandleCalculate
    \/ SetActiveSheet
    \/ AddSheet
    \/ DeleteSheet
    \/ RenameSheet
    \/ ToggleColumnType
    \/ AddColumn
    \/ DeleteColumn
    \/ RenameColumn
    \/ AddRow
    \/ DeleteRow
    \/ UpdateCell
    \/ ToggleSelectRow
    \/ ToggleSelectAll
    \/ ImportFile
    \/ ImportFailed

Spec == Init /\ [][Next]_vars

\* The same page, driven only by the import and the sheet handlers, for
\* MaxDeepSteps handler invocations
InitDeep == Init!1 /\ Init!2 /\ Init!3 /\ Init!4 /\ Init!5 /\ Init!6
            /\ budget = MaxDeepSteps /\ Init!8
            /\ Init!9 /\ Init!10 /\ Init!11 /\ Init!12
            /\ Init!13 /\ Init!14 /\ Init!15

NextSheets == ImportFile \/ AddSheet \/ DeleteSheet

SpecSheets == InitDeep /\ [][NextSheets]_vars

\* The same page, driven only by the import and the column handlers
NextColumns == ImportFile \/ AddColumn \/ DeleteColumn

SpecColumns == InitDeep /\ [][NextColumns]_vars

\* The dashboard: an inventory is imported, the thresholds are typed and
\* CALCULAR is clicked
ImportInventory == ImportFrom(InventoryWorkbooks)

NextCalculate == ImportInventory \/ SetStockMinimo \/ SetStockMaximo \/ HandleCalculate

SpecCalculate == InitDeep /\ [][NextCalculate]_vars

\* POST /api/jobs up to the insert: the row is created as pending
PostJobsInsert ==
    /\ creation = "idle"
    /\ job' = insertJob
    /\ creation' = "inserted"
    /\ UNCHANGED <<page, callbacks>>

\* POST /api/jobs returns before the insert (configuration, authorisation,
\* body) or the insert fails: no row
PostJobsRejected ==
    /\ creation = "idle"
    /\ creation' = "returned"
    /\ UNCHANGED <<page, job, callbacks>>

\* .update({ status: 'running' }), then the request to n8n is sent
PostJobsRunning ==
    /\ creation = "inserted"
    /\ job' = [job EXCEPT !.status = "running"]
    /\ creation' = "triggered"
    /\ UNCHANGED <<page, callbacks>>

\* triggerN8nWorkflow resolved with success: false
PostJobsN8nFailed ==
    /\ creation = "triggered"
    /\ job' = [job EXCEPT !.status = "failed", !.error = "N8N_ERROR"]
    /\ creation' = "returned"
    /\ UNCHANGED <<page, callbacks>>

\* triggerN8nWorkflow resolved with data
PostJobsN8nData ==
    \E outputData \in ImmediateOutputs :
        /\ creation = "triggered"
        /\ job' = [job EXCEPT !.status = "completed", !.output = outputData]
        /\ creation' = "returned"
        /\ UNCHANGED <<page, callbacks>>

\* triggerN8nWorkflow resolved without data: the client is told to poll
PostJobsN8nAccepted ==
    /\ creation = "triggered"
    /\ creation' = "returned"
    /\ UNCHANGED <<page, job, callbacks>>

\* POST /api/webhooks/n8n up to the idempotency check: n8n knows the job's
\* id once it has been triggered
WebhookSelect(c) ==
    \E payload \in Payloads :
        /\ creation \in {"triggered", "returned"}
        /\ job # NoJob
        /\ callbacks[c].pc = "idle"
        /\ callbacks' = [callbacks EXCEPT ![c] =
                [pc |-> IF Finished(job.status) THEN "returned" ELSE "selected",
                 payload |-> payload]]
        /\ UNCHANGED <<page, job, creation>>

\* POST /api/webhooks/n8n from the update on
WebhookUpdate(c) ==
    /\ callbacks[c].pc = "selected"
    /\ job' = webhookUpdate(job, callbacks[c].payload)
    /\ callbacks' = [callbacks EXCEPT ![c].pc = "returned"]
    /\ UNCHANGED <<page, creation>>

NextJobs ==
    \/ PostJobsInsert
    \/ PostJobsRejected
    \/ PostJobsRunning
    \/ PostJobsN8nFailed
    \/ PostJobsN8nData
    \/ PostJobsN8nAccepted
    \/ \E c \in 1..MaxCallbacks : WebhookSelect(c)
    \/ \E c \in 1..MaxCallbacks : WebhookUpdate(c)

SpecJobs == Init /\ [][NextJobs]_vars

\* The editor, with cell inputs whose changes are handled one render apart
\* or in the same render
NextSameRender == ImportFile \/ AddRow \/ UpdateCell \/ UpdateCellSameRender

SpecSameRender == Init /\ [][NextSameRender]_vars

\* getStockStatus, called once with a stock and two thresholds
StatusThresholds == {0, 10, 50, 100}

InitStatus ==
    /\ Init!1 /\ Init!2 /\ Init!3 /\ Init!4 /\ Init!5 /\ Init!6 /\ Init!7 /\ Init!8
    /\ Init!9 /\ Init!10 /\ Init!11 /\ Init!13 /\ Init!14 /\ Init!15
    /\ stockStatus \in
          { [stockActual |-> Num(a), stockMinimo |-> Num(lo), stockMaximo |-> Num(hi),
             status |-> ""] :
                a \in 0..MaxStockValue, lo \in StatusThresholds, hi \in StatusThresholds }

GetStockStatus ==
    /\ stockStatus # NotCalled
    /\ stockStatus.status = ""
    /\ stockStatus' = [stockStatus EXCEPT !.status =
                          getStockStatus(stockStatus.stockActual, stockStatus.stockMinimo,
                                         stockStatus.stockMaximo)]
    /\ UNCHANGED <<sheets, activeSheetId, mounted, spreadsheetData, error, now, budget,
                   lastOp, stockMinimo, stockMaximo, calculation, server>>

SpecStatus == InitStatus /\ [][GetStockStatus]_vars

\* The editor's handlers, called with an id that no row or column of the
\* active sheet has
UnknownId == "unknown"

UpdateCellUnknownRow ==
    \E j \in ArgPos(Len(activeSheet.columns)), text \in CellTexts :
        LET col == activeSheet.columns[j]
        IN  /\ CanAct
            /\ updateSheets(updateCell(sheets, activeSheetId, UnknownId, col.id,
                                       cellInputValue(col.type, text)))
            /\ budget' = budget - 1
            /\ lastOp' = [Op("updateCellUnknownRow", UnknownId, col.id) EXCEPT !.text = text]
            /\ UNCHANGED <<activeSheetId, error, now, dashboard>>

UpdateCellUnknownColumn ==
    \E i \in ArgPos(Len(activeSheet.rows)), text \in CellTexts :
        LET row == activeSheet.rows[i]
        IN  /\ CanAct
            /\ updateSheets(updateCell(sheets, activeSheetId, row.id, UnknownId, Str(text)))
            /\ budget' = budget - 1
            /\ lastOp' = [Op("updateCellUnknownColumn", row.id, UnknownId) EXCEPT !.text = text]
            /\ UNCHANGED <<activeSheetId, error, now, dashboard>>

AddRowUnknownAfter ==
    \E t \in ClockValues :
        /\ CanAct
        /\ updateSheets(addRow(sheets, activeSheetId, UnknownId, t))
        /\ now' = t
        /\ budget' = budget - 1
        /\ lastOp' = Op("addRowUnknownAfter", UnknownId, TimeId("row-", t))
        /\ UNCHANGED <<activeSheetId, error, dashboard>>

DeleteRowUnknown ==
    /\ CanAct
    /\ updateSheets(deleteRow(sheets, activeSheetId, UnknownId))
    /\ budget' = budget - 1
    /\ lastOp' = Op("deleteRowUnknown", UnknownId, NoId)
    /\ UNCHANGED <<activeSheetId, error, now, dashboard>>

DeleteColumnUnknown ==
    /\ CanAct
    /\ IF deleteColumnRejected(sheets, activeSheetId)
       THEN UNCHANGED <<sheets, spreadsheetData, mounted>>
       ELSE updateSheets(deleteColumn(sheets, activeSheetId, UnknownId))
    /\ budget' = budget - 1
    /\ lastOp' = Op("deleteColumnUnknown", UnknownId, NoId)
    /\ UNCHANGED <<activeSheetId, error, now, dashboard>>

RenameColumnUnknown ==
    \E newName \in ColumnNameInputs :
        /\ CanAct
        /\ updateSheets(renameColumn(sheets, activeSheetId, UnknownId, newName))
        /\ budget' = budget - 1
        /\ lastOp' = Op("renameColumnUnknown", UnknownId, newName)
        /\ UNCHANGED <<activeSheetId, error, now, dashboard>>

ToggleColumnTypeUnknown ==
    /\ CanAct
    /\ updateSheets(toggleColumnType(sheets, activeSheetId, UnknownId))
    /\ budget' = budget - 1
    /\ lastOp' = Op("toggleColumnTypeUnknown", UnknownId, NoId)
    /\ UNCHANGED <<activeSheetId, error, now, dashboard>>

ToggleSelectRowUnknown ==
    /\ CanAct
    /\ updateSheets(toggleSelectRow(sheets, activeSheetId, UnknownId))
    /\ budget' = budget - 1
    /\ lastOp' = Op("toggleSelectRowUnknown", UnknownId, NoId)
    /\ UNCHANGED <<activeSheetId, error, now, dashboard>>

AddColumnUnknownAfter ==
    \E t \in ClockValues :
        /\ CanAct
        /\ updateSheets(addColumn(sheets, activeSheetId, UnknownId, t))
        /\ now' = t
        /\ budget' = budget - 1
        /\ lastOp' = Op("addColumnUnknownAfter", UnknownId, TimeId("col-", t))
        /\ UNCHANGED <<activeSheetId, error, dashboard>>

NextUnknownIds ==
    \/ ImportFile
    \/ AddRow
    \/ AddColumnUnknownAfter
    \/ UpdateCellUnknownRow
    \/ UpdateCellUnknownColumn
    \/ AddRowUnknownAfter
    \/ DeleteRowUnknown
    \/ DeleteColumnUnknown
    \/ RenameColumnUnknown
    \/ ToggleColumnTypeUnknown
    \/ ToggleSelectRowUnknown

SpecUnknownIds == Init /\ [][NextUnknownIds]_vars

\* The same page, driven only by the handlers that add a sheet, a column or
\* a row
NextRows == AddSheet \/ AddColumn \/ AddRow

SpecRows == InitDeep /\ [][NextRows]_vars

----------------------------------------------------------------------------
(* Properties *)

ColumnIds(columns) == {columns[i].id : i \in 1..Len(columns)}

\* some cell of the row holds a value other than null
HasData(row) == \E k \in DOMAIN row.cells : row.cells[k] # Null

\* the sheet the handlers work on, before and after the step
activeSheetAfter == ActiveSheet(sheets', activeSheetId')

KeysWithinColumns(ss) ==
    \A i \in 1..Len(ss) : \A r \in 1..Len(ss[i].rows) :
        DOMAIN ss[i].rows[r].cells \subseteq ColumnIds(ss[i].columns)

\* C1: in every reachable state the key set of every row's cell map is a
\* subset of the column ids of the sheet that holds the row (in the editor's
\* sheets and in the snapshot the host holds).  addRow hands its new rows,
\* keyed by the found sheet's columns, to every sheet whose id is
\* activeSheetId, so a second sheet of the same id (C6) gets rows keyed by
\* columns it does not list.
C1_RowKeysWithinColumns ==
    KeysWithinColumns(sheets) /\ KeysWithinColumns(spreadsheetData)

\* the ids addColumn gives to the columns it creates
AddedColumnIds == {TimeId("col-", t) : t \in 1..MaxClock}

\* no sheet lists a column created by addColumn that one of its rows lacks
AddedColumnsWithinKeys(ss) ==
    \A i \in 1..Len(ss) : \A r \in 1..Len(ss[i].rows) :
        (ColumnIds(ss[i].columns) \cap AddedColumnIds) \subseteq DOMAIN ss[i].rows[r].cells

\* C2: after addColumn every row of the sheet has the new column's id as a
\* key, holding null, and the new column is in the column list; a row added
\* by addRow has a null entry for every column; the host is handed the very
\* sheets the editor keeps, and in no state, of the editor or of the host,
\* does a sheet list a column created by addColumn that one of its rows lacks.
C2_AddColumnCompleteness ==
    [][ /\ lastOp'.op = "addColumn" =>
            /\ lastOp'.b \in ColumnIds(activeSheetAfter.columns)
            /\ \A r \in 1..Len(activeSheetAfter.rows) :
                  /\ lastOp'.b \in DOMAIN activeSheetAfter.rows[r].cells
                  /\ activeSheetAfter.rows[r].cells[lastOp'.b] = Null
            /\ spreadsheetData' = sheets'
        /\ lastOp'.op = "addRow" =>
            /\ \E r \in 1..Len(activeSheetAfter.rows) :
                  /\ activeSheetAfter.rows[r].id = lastOp'.b
                  /\ activeSheetAfter.rows[r].cells =
                        [k \in ColumnIds(activeSheetAfter.columns) |-> Null]
            /\ spreadsheetData' = sheets'
        /\ AddedColumnsWithinKeys(sheets')
        /\ AddedColumnsWithinKeys(spreadsheetData')
      ]_vars

\* C2 witness: a column was added to a sheet that already had a row with data.
C2_Witness ==
    /\ lastOp.op = "addColumn"
    /\ lastOp.b \in ColumnIds(activeSheet.columns)
    /\ Len(activeSheet.rows) > 0
    /\ \A r \in 1..Len(activeSheet.rows) :
          /\ HasData(activeSheet.rows[r])
          /\ activeSheet.rows[r].cells[lastOp.b] = Null
    /\ spreadsheetData = sheets

\* C3: deleteColumn(c) on a sheet with more than one column removes c from
\* the column list and from every row's keys; one column is gone and the
\* others are as before, and so are the rows' ids, order and selection flags
\* and every cell under another key.  The handler filters by id, so a second
\* column of the same id (C6) goes with the deleted one.
C3_DeleteColumnCompleteness ==
    [][ (lastOp'.op = "deleteColumn" /\ Len(activeSheet.columns) > 1) =>
            /\ ~(lastOp'.a \in ColumnIds(activeSheetAfter.columns))
            /\ Len(activeSheetAfter.columns) = Len(activeSheet.columns) - 1
            /\ activeSheetAfter.columns =
                  SelectSeq(activeSheet.columns, LAMBDA c : c.id # lastOp'.a)
            /\ activeSheetAfter.id = activeSheet.id
            /\ activeSheetAfter.name = activeSheet.name
            /\ Len(activeSheetAfter.rows) = Len(activeSheet.rows)
            /\ \A r \in 1..Len(activeSheet.rows) :
                  LET before == activeSheet.rows[r]
                      after == activeSheetAfter.rows[r]
                  IN  /\ after.id = before.id
                      /\ after.selected = before.selected
                      /\ DOMAIN after.cells = DOMAIN before.cells \ {lastOp'.a}
                      /\ \A k \in DOMAIN after.cells : after.cells[k] = before.cells[k]
      ]_vars

\* C4: deleteSheet on a workbook of one sheet changes neither the sheets nor
\* the active sheet, and no step leaves the workbook without a sheet.
C4_AtLeastOneSheet ==
    [][ /\ (lastOp'.op = "deleteSheet" /\ Len(sheets) = 1) =>
              (sheets' = sheets /\ activeSheetId' = activeSheetId)
        /\ Len(sheets') >= 1
      ]_vars

\* C5: deleteColumn on a sheet with exactly one column leaves its columns
\* and rows as they are, and a sheet that has a column still has one after
\* deleteColumn.
C5_AtLeastOneColumn ==
    [][ /\ (lastOp'.op = "deleteColumn" /\ Len(activeSheet.columns) = 1) =>
              /\ activeSheetAfter.columns = activeSheet.columns
              /\ activeSheetAfter.rows = activeSheet.rows
        /\ (lastOp'.op = "deleteColumn" /\ Len(activeSheet.columns) >= 1) =>
              Len(activeSheetAfter.columns) >= 1
      ]_vars

\* no two elements of the sequence have the same id
UniqueIds(seq) ==
    \A i, j \in 1..Len(seq) : seq[i].id = seq[j].id => i = j

\* C6: sheet ids are unique in the workbook, and column ids and row ids are
\* unique in each sheet.
C6_UniqueIds ==
    /\ UniqueIds(sheets)
    /\ \A i \in 1..Len(sheets) :
          UniqueIds(sheets[i].columns) /\ UniqueIds(sheets[i].rows)

\* the declared type of the column the handlers find under the id
ColumnType(columns, columnId) ==
    columns[FindIndex(columns, LAMBDA c : c.id = columnId)].type

\* the step is updateCell from the <input> of a number column
NumberCellWritten ==
    /\ lastOp'.op = "updateCell"
    /\ ColumnType(activeSheet.columns, lastOp'.b) = "number"

\* the row lastOp'.a of the active sheet holds v under lastOp'.b after the step
WrittenCellIs(v) ==
    /\ mounted'
    /\ \E r \in 1..Len(activeSheetAfter.rows) : activeSheetAfter.rows[r].id = lastOp'.a
    /\ \A r \in 1..Len(activeSheetAfter.rows) :
          activeSheetAfter.rows[r].id = lastOp'.a =>
              /\ lastOp'.b \in DOMAIN activeSheetAfter.rows[r].cells
              /\ activeSheetAfter.rows[r].cells[lastOp'.b] = v

\* C7: a text that does not convert to a number, typed into a cell of a
\* number column, stores null in that cell, and the editor keeps running.
C7_NonNumericStoresNull ==
    [][ (NumberCellWritten /\ IsNaNNumber(Str(lastOp'.text))) => WrittenCellIs(Null) ]_vars

\* C7 witness: a non-numeric text was typed into a number cell, which is null.
C7_Witness ==
    /\ lastOp.op = "updateCell"
    /\ IsNaNNumber(Str(lastOp.text))
    /\ ColumnType(activeSheet.columns, lastOp.b) = "number"
    /\ \E r \in 1..Len(activeSheet.rows) :
          /\ activeSheet.rows[r].id = lastOp.a
          /\ activeSheet.rows[r].cells[lastOp.b] = Null

\* the text is not blank and converts to a number
ParsesAsNumber(text) == TrimLeft(text) # <<>> /\ ~IsNaNNumber(Str(text))

\* C8: a text that converts to the number n, typed into a cell of a number
\* column, stores n in that cell (0 included).
C8_NumericStoresNumber ==
    [][ (NumberCellWritten /\ ParsesAsNumber(lastOp'.text)) =>
            WrittenCellIs(ToNumber(Str(lastOp'.text))) ]_vars

\* C9: every cell under a column of declared type number holds a number or null.
C9_NumberColumnsHoldNumbers ==
    \A i \in 1..Len(sheets) : \A c \in 1..Len(sheets[i].columns) :
        sheets[i].columns[c].type = "number" =>
            \A r \in 1..Len(sheets[i].rows) :
                Cell(sheets[i].rows[r], sheets[i].columns[c].id).t \in {"number", "null"}

\* the record without the internal selection flag
WithoutSelected(obj) == [k \in DOMAIN obj \ {"_selected"} |-> obj[k]]

SelectionFallback(sheet) ==
    LET selected == getSelectedData(<<sheet>>)
        all == getSpreadsheetDataForAI(<<sheet>>)
    IN  /\ (\A r \in 1..Len(sheet.rows) : ~Truthy(sheet.rows[r].selected)) =>
               selected = Map(WithoutSelected, all)
        /\ selected = <<>> <=> sheet.rows = <<>>

\* C10: for every sheet with no selected row, the selected-only export is
\* the export of all rows (without its _selected flag), and the
\* selected-only export is empty only for a sheet without rows.
C10_SelectionFallback ==
    /\ \A i \in 1..Len(sheets) : SelectionFallback(sheets[i])
    /\ \A i \in 1..Len(spreadsheetData) : SelectionFallback(spreadsheetData[i])

\* C10 witness: the last selected row of the exported sheet was deselected,
\* and the selected-only export still has every row.
C10_Witness ==
    /\ lastOp.op = "toggleSelectRow"
    /\ Len(spreadsheetData) > 0
    /\ Len(spreadsheetData[1].rows) > 1
    /\ \A r \in 1..Len(spreadsheetData[1].rows) :
          spreadsheetData[1].rows[r].selected = Bool(FALSE)
              \/ spreadsheetData[1].rows[r].selected = Undefined
    /\ \E r \in 1..Len(spreadsheetData[1].rows) :
          spreadsheetData[1].rows[r].selected = Bool(FALSE)
    /\ Len(getSelectedData(spreadsheetData)) = Len(spreadsheetData[1].rows)

\* no later column of the list carries the name of column c
LastOfName(columns, c) ==
    \A j \in (c + 1)..Len(columns) : columns[j].name # columns[c].name

\* the record holds, under the name of each column (of each column that is
\* the last of its name, when lastOnly), the row's cell under the column's id
RecordHolds(rec, columns, row, lastOnly) ==
    \A c \in 1..Len(columns) :
        (lastOnly => LastOfName(columns, c)) =>
            /\ columns[c].name \in DOMAIN rec
            /\ rec[columns[c].name] = Cell(row, columns[c].id)

\* both exports of the sheet: one record per exported row, in row order
ExportFaithful(sheet, lastOnly) ==
    LET allData == getSpreadsheetDataForAI(<<sheet>>)
        selectedData == getSelectedData(<<sheet>>)
        selectedRows == SelectSeq(sheet.rows, LAMBDA r : Truthy(r.selected))
    IN  /\ Len(allData) = Len(sheet.rows)
        /\ \A r \in 1..Len(sheet.rows) :
              RecordHolds(allData[r], sheet.columns, sheet.rows[r], lastOnly)
        /\ selectedRows # <<>> =>
              /\ Len(selectedData) = Len(selectedRows)
              /\ \A r \in 1..Len(selectedRows) :
                    /\ DOMAIN selectedData[r] = ColumnNames(sheet.columns)
                    /\ RecordHolds(selectedData[r], sheet.columns, selectedRows[r], lastOnly)

\* C11 as stated: the export of every sheet has one record per exported row,
\* in row order (all rows; the selected rows when some row is selected), and
\* each record holds under every column's name the row's cell under that
\* column's id.
C11_ExportFaithful ==
    /\ \A i \in 1..Len(sheets) : ExportFaithful(sheets[i], FALSE)
    /\ \A i \in 1..Len(spreadsheetData) : ExportFaithful(spreadsheetData[i], FALSE)

\* C11 amended: the same, where each record holds under a name the row's
\* cell under the id of the last column that carries the name.
C11_ExportFaithfulLastOfName ==
    /\ \A i \in 1..Len(sheets) : ExportFaithful(sheets[i], TRUE)
    /\ \A i \in 1..Len(spreadsheetData) : ExportFaithful(spreadsheetData[i], TRUE)

\* C11 witness: the host's first sheet has a selected row and an unselected
\* one, both with data, and the selected-only export has the selected row only.
C11_Witness ==
    /\ lastOp.op = "toggleSelectRow"
    /\ Len(spreadsheetData) > 0
    /\ \E r \in 1..Len(spreadsheetData[1].rows) :
          Truthy(spreadsheetData[1].rows[r].selected) /\ HasData(spreadsheetData[1].rows[r])
    /\ \E r \in 1..Len(spreadsheetData[1].rows) :
          ~Truthy(spreadsheetData[1].rows[r].selected) /\ HasData(spreadsheetData[1].rows[r])
    /\ Len(getSelectedData(spreadsheetData)) < Len(getSpreadsheetDataForAI(spreadsheetData))

\* column c is the last of two or more columns that carry its name
LastOfShared(columns, c) ==
    /\ LastOfName(columns, c)
    /\ \E j \in 1..(c - 1) : columns[j].name = columns[c].name

\* the record has as many entries as the columns have names, `extra` apart,
\* and under a name that several columns carry it holds the last one's cell
SharedNameHolds(rec, columns, row, extra) ==
    /\ Cardinality(DOMAIN rec \ extra) = Cardinality(ColumnNames(columns))
    /\ \A c \in 1..Len(columns) :
          LastOfShared(columns, c) =>
              /\ columns[c].name \in DOMAIN rec
              /\ rec[columns[c].name] = Cell(row, columns[c].id)

DuplicateNamesCollapse(ss) ==
    \A i \in 1..Len(ss) :
        LET allData == getSpreadsheetDataForAI(<<ss[i]>>)
            selectedData == getSelectedData(<<ss[i]>>)
            exportedRows == rowsToUse(ss[i].rows)
        IN  /\ \A r \in 1..Len(allData) :
                  SharedNameHolds(allData[r], ss[i].columns, ss[i].rows[r], {"_selected"})
            /\ \A r \in 1..Len(selectedData) :
                  SharedNameHolds(selectedData[r], ss[i].columns, exportedRows[r], {})

\* the rows of every sheet are what they were before the step
RowsUnchanged ==
    /\ Len(sheets') = Len(sheets)
    /\ \A i \in 1..Len(sheets) : sheets'[i].rows = sheets[i].rows

\* C12: when two or more columns of a sheet have the same name, every
\* exported record has one entry for the name, holding the cell of the last
\* column that carries it; giving a column the name of another changes no
\* row, and the rows keep one cell per column id.
C12_DuplicateNamesLastWins ==
    [][ /\ DuplicateNamesCollapse(sheets')
        /\ DuplicateNamesCollapse(spreadsheetData')
        /\ lastOp'.op = "renameColumn" => RowsUnchanged
      ]_vars

\* C12 witness: a column of the host's first sheet was given the name of a
\* later one; a row holds different cells under the two ids and its exported
\* record holds the later column's.
C12_Witness ==
    /\ lastOp.op = "renameColumn"
    /\ Len(spreadsheetData) > 0
    /\ LET columns == spreadsheetData[1].columns
           rows == spreadsheetData[1].rows
       IN  \E c \in 1..Len(columns), r \in 1..Len(rows) :
              /\ LastOfShared(columns, c)
              /\ columns[1].name = columns[c].name
              /\ Cell(rows[r], columns[1].id) # Cell(rows[r], columns[c].id)
              /\ getSelectedData(spreadsheetData)[r][columns[c].name] = Cell(rows[r], columns[c].id)

\* C13: the status is bajo exactly when stock < minimum, otherwise alto
\* exactly when stock >= maximum, otherwise correcto; with minimum 10 and
\* maximum 100, 9 is bajo, 10 and 99 are correcto and 100 is alto.
C13_StockStatus ==
    stockStatus.status # "" =>
        LET a == stockStatus.stockActual.n
            lo == stockStatus.stockMinimo.n
            hi == stockStatus.stockMaximo.n
            status == stockStatus.status
        IN  /\ status \in {"bajo", "alto", "correcto"}
            /\ status = "bajo" <=> a < lo
            /\ status = "alto" <=> (a >= lo /\ a >= hi)
            /\ status = "correcto" <=> (a >= lo /\ a < hi)
            /\ (lo = 10 /\ hi = 100) =>
                  /\ a = 9 => status = "bajo"
                  /\ a = 10 => status = "correcto"
                  /\ a = 99 => status = "correcto"
                  /\ a = 100 => status = "alto"

\* C13 witness: a stock equal to the maximum 100, with minimum 10, was
\* classified alto.
C13_Witness ==
    stockStatus = [stockActual |-> Num(100), stockMinimo |-> Num(10),
                   stockMaximo |-> Num(100), status |-> "alto"]

\* the number of records the classification rule gives the status, with the
\* thresholds the KPI cards use for the record
RuleCountPerItem(data, stockMin, stockMax, status) ==
    CountOf(data, LAMBDA item :
        getStockStatus(rowStock(item), itemMinStock(item, stockMin),
                       itemMaxStock(item, stockMax)) = status)

\* the number of records the classification rule gives the status
RuleCount(data, stockMin, stockMax, status) ==
    CountOf(data, LAMBDA row : getStockStatus(rowStock(row), stockMin, stockMax) = status)

\* C14: the counts of the KPI cards, and the counts CALCULAR has just
\* stored, are the numbers of exported records that getStockStatus
\* classifies bajo, correcto and alto.
C14_CountsFollowRule ==
    LET data == getSpreadsheetDataForAI(spreadsheetData)
        kpis == KPICards(data, stockMinimo, stockMaximo)
    IN  /\ kpis.criticalProducts = RuleCountPerItem(data, stockMinimo, stockMaximo, "bajo")
        /\ kpis.healthyProducts = RuleCountPerItem(data, stockMinimo, stockMaximo, "correcto")
        /\ kpis.excessProducts = RuleCountPerItem(data, stockMinimo, stockMaximo, "alto")
        /\ (lastOp.op = "handleCalculate" /\ error = "") =>
              /\ calculation.productos_bajo_stock =
                    RuleCount(data, stockMinimo, stockMaximo, "bajo")
              /\ calculation.productos_stock_correcto =
                    RuleCount(data, stockMinimo, stockMaximo, "correcto")
              /\ calculation.productos_alto_stock =
                    RuleCount(data, stockMinimo, stockMaximo, "alto")

\* the tables of the workbook that have a row, in order: one sheet is
\* imported for each
NonEmptyTables(workbook) == SelectSeq(workbook, LAMBDA tab : Len(tab.jsonData) > 0)

\* among the first SAMPLE_ROWS data rows some cell of the column is not
\* empty, and every cell that is not empty converts to a number
InferredNumber(rawRows, colIndex) ==
    LET window == 1..Min(Len(rawRows), SAMPLE_ROWS)
    IN  /\ \E i \in window : NonEmpty(RawAt(rawRows[i], colIndex))
        /\ \A i \in window :
              NonEmpty(RawAt(rawRows[i], colIndex)) =>
                  ~IsNaNNumber(RawAt(rawRows[i], colIndex))

\* the declared types of the columns of the sheet
ColumnTypes(sheet) == [c \in 1..Len(sheet.columns) |-> sheet.columns[c].type]

\* C15: right after an import, each table with a row has become a sheet with
\* one column per header, and a column is of type number exactly when, among
\* the first 10 data rows, some cell of it is not empty and every cell that is
\* not empty converts to a number; the table Producto/Stock with rows A, 50
\* and B, abc has two text columns, and a table of a header row alone has
\* text columns only.
C15_TypeInference ==
    lastOp.op = "import" =>
        LET tables == NonEmptyTables(lastOp.file)
        IN  /\ Len(spreadsheetData) = Len(tables)
            /\ \A i \in 1..Len(tables) :
                  LET headers == Head(tables[i].jsonData)
                      rawRows == Tail(tables[i].jsonData)
                      types == ColumnTypes(spreadsheetData[i])
                  IN  /\ Len(types) = Len(headers)
                      /\ \A c \in 1..Len(headers) :
                            types[c] = "number" <=> InferredNumber(rawRows, c)
                      /\ \A c \in 1..Len(headers) :
                            types[c] = "text" <=> ~InferredNumber(rawRows, c)
                      /\ rawRows = <<>> => \A c \in 1..Len(headers) : types[c] = "text"
            /\ lastOp.file = <<TableProductoStock>> =>
                  ColumnTypes(spreadsheetData[1]) = <<"text", "text">>

\* C15 witness: the mixed table was imported; its column of a number text,
\* an empty text and a missing field is a number column, and its column of
\* nulls and a text is a text column.
C15_Witness ==
    /\ lastOp.op = "import"
    /\ lastOp.file = <<TableEmpty, TableMixed>>
    /\ Len(spreadsheetData) = 1
    /\ ColumnTypes(spreadsheetData[1]) = <<"text", "number", "number", "text">>

\* C16: right after an import, a text that does not convert to a number and
\* lies below the first 10 data rows of a column inferred as number is stored
\* as that text, never as NaN.
C16_BeyondWindowLiteral ==
    lastOp.op = "import" =>
        LET tables == NonEmptyTables(lastOp.file)
        IN  \A i \in 1..Len(tables) :
                LET rawRows == Tail(tables[i].jsonData)
                    sheet == spreadsheetData[i]
                IN  \A c \in 1..Len(sheet.columns), r \in 1..Len(rawRows) :
                        LET val == RawAt(rawRows[r], c)
                        IN  ( /\ r > SAMPLE_ROWS
                              /\ sheet.columns[c].type = "number"
                              /\ val.t = "string"
                              /\ IsNaNNumber(val) ) =>
                                /\ Cell(sheet.rows[r], sheet.columns[c].id) = val
                                /\ Cell(sheet.rows[r], sheet.columns[c].id).t # "NaN"

\* C17: right after an import, each data row has become a row whose keys are
\* the sheet's column ids, one per column; the cell under the c-th column
\* comes from the c-th field of the source row (the field itself in a text
\* column, its number in a number column), and a field that is undefined,
\* null or missing from a short row is stored as null.
C17_ImportedRows ==
    lastOp.op = "import" =>
        LET tables == NonEmptyTables(lastOp.file)
        IN  \A i \in 1..Len(tables) :
                LET rawRows == Tail(tables[i].jsonData)
                    sheet == spreadsheetData[i]
                IN  /\ Len(sheet.rows) = Len(rawRows)
                    /\ Cardinality(ColumnIds(sheet.columns)) = Len(sheet.columns)
                    /\ \A r \in 1..Len(rawRows) :
                          /\ DOMAIN sheet.rows[r].cells = ColumnIds(sheet.columns)
                          /\ \A c \in 1..Len(sheet.columns) :
                                LET val == RawAt(rawRows[r], c)
                                    stored == sheet.rows[r].cells[sheet.columns[c].id]
                                IN  /\ val.t \in {"undefined", "null"} => stored = Null
                                    /\ (sheet.columns[c].type = "text"
                                          /\ val.t \in {"string", "number"}) => stored = val
                                    /\ (sheet.columns[c].type = "number"
                                          /\ ~(val.t \in {"undefined", "null"})
                                          /\ ~IsNaNNumber(val)) => stored = ToNumber(val)

\* C17 witness: the mixed table was imported; its row of one field has the
\* four keys, the field under the first and null under the others, and its
\* row of five fields has four keys.
C17_Witness ==
    /\ lastOp.op = "import"
    /\ lastOp.file = <<TableEmpty, TableMixed>>
    /\ Len(spreadsheetData) = 1
    /\ LET sheet == spreadsheetData[1]
       IN  /\ Len(sheet.rows) = 4
           /\ Cardinality(DOMAIN sheet.rows[3].cells) = 4
           /\ sheet.rows[3].cells[sheet.columns[1].id] = Str(<<"C">>)
           /\ \A c \in 2..4 : sheet.rows[3].cells[sheet.columns[c].id] = Null
           /\ sheet.rows[2].cells[sheet.columns[3].id] = Null
           /\ Cardinality(DOMAIN sheet.rows[4].cells) = 4

\* C18: a failed import reports one failure, in `error`, and leaves the
\* host's snapshot and the editor's sheets and active sheet as they were;
\* nothing of the workbook that was being read is merged in.
C18_FailedImportChangesNothing ==
    [][ lastOp'.op = "importFailed" =>
            /\ error' = "Error al importar el archivo Excel"
            /\ spreadsheetData' = spreadsheetData
            /\ sheets' = sheets
            /\ activeSheetId' = activeSheetId
            /\ mounted' = mounted
      ]_vars

\* C18 witness: an import failed on a workbook that has sheets, while the
\* host held an edited workbook, which it still holds.
C18_Witness ==
    /\ lastOp.op = "importFailed"
    /\ parseExcelFile(lastOp.file) # <<>>
    /\ error = "Error al importar el archivo Excel"
    /\ Len(spreadsheetData) > 0
    /\ spreadsheetData = sheets
    /\ \E i \in 1..Len(sheets) : \E r \in 1..Len(sheets[i].rows) : HasData(sheets[i].rows[r])

\* the handlers called with an id that the active sheet does not have
UnknownIdOps ==
    { "updateCellUnknownRow", "updateCellUnknownColumn", "addRowUnknownAfter",
      "deleteRowUnknown", "deleteColumnUnknown", "renameColumnUnknown",
      "toggleColumnTypeUnknown", "toggleSelectRowUnknown" }

\* C19: updateCell with an unknown row id or an unknown column id, addRow
\* after an unknown row id, and deleteRow, deleteColumn, renameColumn,
\* toggleColumnType and toggleSelectRow with an unknown id leave the
\* editor's sheets equal to what they were.
C19_UnknownIdNoOp ==
    [][ lastOp'.op \in UnknownIdOps => sheets' = sheets ]_vars

\* where addColumn is to put the new column: after the named column when the
\* sheet has it, at the end otherwise
InsertedAt(columns, afterColumnId) ==
    IF afterColumnId \in ColumnIds(columns)
    THEN FindIndex(columns, LAMBDA c : c.id = afterColumnId) + 1
    ELSE Len(columns) + 1

\* C20: addColumn adds one column of type text: at the end when no column id
\* is given or the id names no column of the sheet, right after the named
\* column otherwise; the columns that were there keep their order.
C20_AddColumnPosition ==
    [][ lastOp'.op \in {"addColumn", "addColumnUnknownAfter"} =>
            LET before == activeSheet.columns
                after == activeSheetAfter.columns
                pos == InsertedAt(before, lastOp'.a)
            IN  /\ Len(after) = Len(before) + 1
                /\ after[pos].id = lastOp'.b
                /\ after[pos].type = "text"
                /\ SubSeq(after, 1, pos - 1) = SubSeq(before, 1, pos - 1)
                /\ SubSeq(after, pos + 1, Len(after)) = SubSeq(before, pos, Len(before))
      ]_vars

\* C21: addRow adds one row, whose keys are the column ids of the sheet, each
\* holding null: the row is last when no row id is given and right after the
\* named row when the sheet has a row of that id; the rows that were there
\* keep their order and contents, and the columns are as before.
C21_AddRowPosition ==
    [][ lastOp'.op = "addRow" =>
            LET before == activeSheet.rows
                after == activeSheetAfter.rows
                pos == IF lastOp'.a = NoId
                       THEN Len(before) + 1
                       ELSE FindIndex(before, LAMBDA r : r.id = lastOp'.a) + 1
            IN  /\ Len(after) = Len(before) + 1
                /\ after[pos].id = lastOp'.b
                /\ after[pos].cells = [k \in ColumnIds(activeSheet.columns) |-> Null]
                /\ SubSeq(after, 1, pos - 1) = SubSeq(before, 1, pos - 1)
                /\ SubSeq(after, pos + 1, Len(after)) = SubSeq(before, pos, Len(before))
                /\ activeSheetAfter.columns = activeSheet.columns
      ]_vars

\* C21 witness: a row was added after the first of two rows with data; it is
\* the second of three, all null, between the two.
C21_Witness ==
    /\ lastOp.op = "addRow"
    /\ Len(activeSheet.rows) = 3
    /\ lastOp.a = activeSheet.rows[1].id
    /\ activeSheet.rows[2].id = lastOp.b
    /\ activeSheet.rows[2].cells = [k \in ColumnIds(activeSheet.columns) |-> Null]
    /\ HasData(activeSheet.rows[1])
    /\ HasData(activeSheet.rows[3])

\* the columns with the type of the idx-th one toggled
Retyped(columns, idx) ==
    [columns EXCEPT ![idx].type = IF columns[idx].type = "text" THEN "number" ELSE "text"]

\* C22: toggleColumnType changes the type of the named column of the active
\* sheet (text to number, number to text) and renameColumn its name, and
\* nothing else: the column keeps its id and position, every other column,
\* the rows, their order and every cell are as before, and a second
\* toggleColumnType of the same column gives back the sheets.  The handlers
\* map by id, so a second column of the same id (C6) is changed as well.
C22_RetypeRenameFrame ==
    [][ /\ lastOp'.op = "toggleColumnType" =>
            LET idx == FindIndex(activeSheet.columns, LAMBDA c : c.id = lastOp'.a)
            IN  /\ activeSheetAfter =
                      [activeSheet EXCEPT !.columns = Retyped(activeSheet.columns, idx)]
                /\ toggleColumnType(sheets', activeSheetId', lastOp'.a) = sheets
        /\ lastOp'.op = "renameColumn" =>
            LET idx == FindIndex(activeSheet.columns, LAMBDA c : c.id = lastOp'.a)
            IN  activeSheetAfter =
                    [activeSheet EXCEPT !.columns[idx].name = lastOp'.b]
      ]_vars

\* C23: toggleSelectRow flips the selected flag of the named row of the
\* active sheet and toggleSelectAll sets every row's flag (to false when all
\* rows were selected, to true otherwise), and nothing else: the sheet's id,
\* name and columns, the rows' ids and order and every cell are as before.
\* toggleSelectRow maps by id, so a second row of the same id (C6) is flipped
\* as well.
C23_SelectionFrame ==
    [][ /\ lastOp'.op = "toggleSelectRow" =>
            LET idx == FindIndex(activeSheet.rows, LAMBDA r : r.id = lastOp'.a)
            IN  /\ activeSheetAfter =
                      [activeSheet EXCEPT !.rows[idx].selected = Not(activeSheet.rows[idx].selected)]
                /\ Truthy(activeSheetAfter.rows[idx].selected)
                      = ~Truthy(activeSheet.rows[idx].selected)
        /\ lastOp'.op = "toggleSelectAll" =>
            LET allSelected == \A r \in 1..Len(activeSheet.rows) :
                                  Truthy(activeSheet.rows[r].selected)
            IN  activeSheetAfter =
                    [activeSheet EXCEPT !.rows =
                        [r \in 1..Len(activeSheet.rows) |->
                            [activeSheet.rows[r] EXCEPT !.selected = Bool(~allSelected)]]]
      ]_vars

SheetIds(ss) == {ss[i].id : i \in 1..Len(ss)}

\* C24: in every state activeSheetId is the id of a sheet of the workbook;
\* deleteSheet of the active sheet makes the first remaining sheet active,
\* deleteSheet of another sheet leaves the active sheet as it is, and
\* addSheet makes the sheet it appends active.  deleteSheet filters by id, so
\* it can leave no sheet at all (C4, through C6), and then activeSheetId names
\* none.
C24_ActiveSheetInWorkbook ==
    [][ /\ activeSheetId \in SheetIds(sheets)
        /\ activeSheetId' \in SheetIds(sheets')
        /\ (lastOp'.op = "deleteSheet" /\ Len(sheets) > 1) =>
              IF lastOp'.a = activeSheetId
              THEN activeSheetId' = deleteSheetFilter(sheets, lastOp'.a)[1].id
              ELSE activeSheetId' = activeSheetId
        /\ lastOp'.op = "addSheet" =>
              /\ activeSheetId' = lastOp'.b
              /\ sheets'[Len(sheets')].id = activeSheetId'
              /\ Len(sheets') = Len(sheets) + 1
      ]_vars

\* after CALCULAR the totals are those of the exported rows, and for the
\* inventory X, 5, 2 and Y, 50, 3 with thresholds 10 and 100 the counts are
\* 1 bajo, 1 correcto and 0 alto, the total stock is 55 and the mean cost 5/2
TotalsAndScenario ==
    LET data == getSpreadsheetDataForAI(spreadsheetData)
        mean == calculation.media_coste_unitario
    IN  /\ calculation.total_productos = Len(spreadsheetData[1].rows)
        /\ calculation.total_stock = Sum(Map(rowStock, data))
        /\ ( /\ spreadsheetData = parseExcelFile(<<TableInventory>>)
             /\ stockMinimo = Num(10)
             /\ stockMaximo = Num(100) ) =>
               /\ calculation.productos_bajo_stock = 1
               /\ calculation.productos_stock_correcto = 1
               /\ calculation.productos_alto_stock = 0
               /\ calculation.total_stock = Num(55)
               /\ mean.num.n * 2 = 5 * mean.den

\* C25 as stated: after CALCULAR, total_productos is the number of exported
\* rows, total_stock the sum of their stock quantities and
\* media_coste_unitario the sum of their unit costs over their number; for the inventory X, 5, 2 and
\* Y, 50, 3 with thresholds 10 and 100 the counts are 1 bajo, 1 correcto and
\* 0 alto, the total stock is 55 and the mean cost 5/2.
C25_CalculationTotals ==
    (lastOp.op = "handleCalculate" /\ error = "") =>
        LET data == getSpreadsheetDataForAI(spreadsheetData)
            mean == calculation.media_coste_unitario
        IN  /\ TotalsAndScenario
            /\ Mul(mean.num, Num(Len(data))) = Mul(Sum(Map(rowCost, data)), Num(mean.den))

\* C25 amended: the same, where media_coste_unitario is the sum of the unit
\* costs greater than 0 over the number of rows that have one, and 0 when no
\* row has one.
C25_CalculationTotalsPositiveCosts ==
    (lastOp.op = "handleCalculate" /\ error = "") =>
        LET data == getSpreadsheetDataForAI(spreadsheetData)
            mean == calculation.media_coste_unitario
            costs == SelectSeq(Map(rowCost, data), LAMBDA c : Gt(c, Num(0)))
        IN  /\ TotalsAndScenario
            /\ IF costs = <<>>
               THEN mean.num = Num(0)
               ELSE mean.num = Sum(costs) /\ mean.den = Len(costs)

\* C25 witness: CALCULAR ran on the inventory X, 5, 2 and Y, 50, 3 with
\* thresholds 10 and 100 and stored 1 bajo, 1 correcto, 0 alto, 55 and 5/2.
C25_Witness ==
    /\ lastOp.op = "handleCalculate"
    /\ error = ""
    /\ spreadsheetData = parseExcelFile(<<TableInventory>>)
    /\ stockMinimo = Num(10)
    /\ stockMaximo = Num(100)
    /\ calculation = [ total_productos |-> 2,
                       total_stock |-> Num(55),
                       media_coste_unitario |-> [num |-> Num(5), den |-> 2],
                       productos_bajo_stock |-> 1,
                       productos_stock_correcto |-> 1,
                       productos_alto_stock |-> 0 ]

\* C26: once the row's status is completed or failed, no step changes its
\* status, output or error.  The callback route reads the status and
\* updates in two steps, and POST /api/jobs updates without reading.
C26_FinishedJobFrozen ==
    [][ Finished(job.status) => job' = job ]_vars

\* the handlers that work on columns, rows, cells and selection flags
ActiveSheetOps ==
    { "addColumn", "deleteColumn", "renameColumn", "toggleColumnType", "addRow",
      "deleteRow", "updateCell", "toggleSelectRow", "toggleSelectAll" }

\* the position in the workbook of the sheet the handlers work on
ActiveSheetIndex ==
    LET idx == FindIndex(sheets, LAMBDA s : s.id = activeSheetId)
    IN  IF idx = 0 THEN 1 ELSE idx

\* C27: addColumn, deleteColumn, renameColumn, toggleColumnType, addRow,
\* deleteRow, updateCell, toggleSelectRow and toggleSelectAll leave the number
\* and order of the sheets and every sheet other than the active one as they
\* were.  The handlers map over the sheets by id, so a second sheet of the
\* active sheet's id (C6) is changed as well.
C27_OnlyActiveSheetChanges ==
    [][ lastOp'.op \in ActiveSheetOps =>
            /\ Len(sheets') = Len(sheets)
            /\ \A i \in 1..Len(sheets) :
                  /\ sheets'[i].id = sheets[i].id
                  /\ i # ActiveSheetIndex => sheets'[i] = sheets[i]
      ]_vars

\* C29: while the editor is rendered, the records the host builds for the
\* calculation, the KPI cards, the PDF export and the chart modal (all rows,
\* and the selected rows) are those of the sheet that is active in the editor.
\* The host builds them from spreadsheetData[0], the first sheet.
C29_ExportOfActiveSheet ==
    mounted =>
        /\ getSpreadsheetDataForAI(spreadsheetData) = getSpreadsheetDataForAI(<<activeSheet>>)
        /\ getSelectedData(spreadsheetData) = getSelectedData(<<activeSheet>>)

\* C30: the three counts CALCULAR has just stored add up to total_productos,
\* and the three counts of the KPI cards to their number of products,
\* whatever the thresholds are.  CALCULAR filters three times, with tests that
\* overlap when the minimum is above the maximum and that all fail on a stock
\* that is not a number.
C30_OneBucketPerRow ==
    LET data == getSpreadsheetDataForAI(spreadsheetData)
        kpis == KPICards(data, stockMinimo, stockMaximo)
    IN  /\ kpis.criticalProducts + kpis.healthyProducts + kpis.excessProducts
              = kpis.totalProducts
        /\ (lastOp.op = "handleCalculate" /\ error = "") =>
              calculation.productos_bajo_stock + calculation.productos_stock_correcto
                  + calculation.productos_alto_stock = calculation.total_productos

\* every row of the active sheet with the id holds, after the step, the value
\* the cell <input> of the column hands over for the text
CellHoldsInput(rowId, columnId, text) ==
    \A r \in 1..Len(activeSheetAfter.rows) :
        activeSheetAfter.rows[r].id = rowId =>
            Cell(activeSheetAfter.rows[r], columnId)
                = cellInputValue(ColumnType(activeSheet.columns, columnId), text)

\* C28: after each handler the host holds the sheets the editor holds; an
\* updateCell changes no cell but its own, so the edits before it are kept;
\* and when two cell inputs change in the same render, both cells hold what
\* was typed.  The handlers compute the new sheets from the `sheets` of the
\* render they were created in and pass them to setSheets as a value.
C28_NoEditLost ==
    [][ /\ lastOp'.op \in {"addRow", "updateCell", "updateCellSameRender"} =>
              spreadsheetData' = sheets'
        /\ lastOp'.op = "updateCell" =>
              /\ Len(activeSheetAfter.rows) = Len(activeSheet.rows)
              /\ \A r \in 1..Len(activeSheet.rows) :
                    \A k \in DOMAIN activeSheet.rows[r].cells :
                        (activeSheet.rows[r].id # lastOp'.a \/ k # lastOp'.b) =>
                            Cell(activeSheetAfter.rows[r], k) = activeSheet.rows[r].cells[k]
              /\ CellHoldsInput(lastOp'.a, lastOp'.b, lastOp'.text)
        /\ lastOp'.op = "updateCellSameRender" =>
              /\ CellHoldsInput(lastOp'.a, lastOp'.b, lastOp'.text)
              /\ CellHoldsInput(lastOp'.a, lastOp'.first.b, lastOp'.first.text)
      ]_vars

====
